---- MODULE Spec2Model ----
(***************************************************************************)
(* Quota-aware shipment approval of the seafood purchasing application:   *)
(* the store reducer (hooks/useAppState), the quota ledger                 *)
(* (getQuotaStatus), purchase-order numbering (utils/purchaseOrderUtils)   *)
(* and the handlers that dispatch to the store (PurchaseForm,              *)
(* PendingPurchases, PurchasesList).                                       *)
(*                                                                         *)
(* Conventions.  Pounds are integers counted in hundredths of a pound.     *)
(* Dates are integer day numbers; day 0 is Sunday 2025-06-01.  A JavaScript*)
(* string is a sequence of one-character strings.  `undefined` is          *)
(* UndefinedDate for dates, the empty string for a purchase order number   *)
(* (both are falsy in the source) and Undefined for an approvalStatus.     *)
(***************************************************************************)
EXTENDS Integers, Sequences, FiniteSets, TLC

VARIABLES
    state,      \* AppState held by useReducer: products, purchases, shipments, weeklyQuotas
    view,       \* the AppState of the last committed render, closed over by the handlers
    now,        \* wall clock (new Date()), in days
    nextId,     \* the next value Date.now().toString() yields for a new shipment id
    lag,        \* dispatches applied since the render the handlers close over
    lastOp,     \* history: the last handler that dispatched and the shipment it was for
    poIn,       \* arguments of a call of a pure function (generatePurchaseOrderNumber: existing list, today)
    poOut,      \* its result
    outbox      \* the notification calls started by the handlers

vars == <<state, view, now, nextId, lag, lastOp, poIn, poOut, outbox>>

-----------------------------------------------------------------------------
(* Bounds of the model                                                     *)

MaxShipments == 1     \* shipments of one run with serialized handlers, a loaded one included
MaxRaceShipments == 2 \* shipments submitted in one run with handlers of a stale render
MaxDay == 1           \* days the clock advances
MaxExisting == 2      \* length of the list given to generatePurchaseOrderNumber
MaxPurchases == 3     \* direct ADD_PURCHASE records in the quota ledger runs
MaxLag == 1           \* dispatches a handler's render may be behind the store
MaxIssued == 2        \* largest sequence number the handlers issue in one run
MaxSweepShipments == 2 \* shipments submitted in one run over the retention period
MaxOverdue == 1       \* days the clock runs past the retention period
MaxNotifyShipments == 2 \* shipments submitted in one run with notifications
MaxCalls == 2         \* notification calls started in one run
MaxDate == 10         \* days after 2025-06-27 that arrival and query dates range over
MaxWeekPurchases == 2 \* purchases in the ledger of the week-matching runs

-----------------------------------------------------------------------------
(* JavaScript strings and numbers                                          *)

Digit == <<"0", "1", "2", "3", "4", "5", "6", "7", "8", "9">>

IsDigit(c) == \E i \in 1..10 : Digit[i] = c

DigitVal(c) == (CHOOSE i \in 1..10 : Digit[i] = c) - 1

\* String(n) for an integer n >= 0
RECURSIVE NumberToString(_)
NumberToString(n) == IF n < 10 THEN <<Digit[n + 1]>>
                     ELSE NumberToString(n \div 10) \o <<Digit[(n % 10) + 1]>>

\* s.padStart(len, c)
RECURSIVE PadStart(_, _, _)
PadStart(s, len, c) == IF Len(s) >= len THEN s ELSE PadStart(<<c>> \o s, len, c)

\* s.startsWith(p)
StartsWith(s, p) == /\ Len(s) >= Len(p)
                    /\ SubSeq(s, 1, Len(p)) = p

\* s.split('-'): the segments between the dashes
RECURSIVE Split(_)
Split(s) ==
    IF \A i \in 1..Len(s) : s[i] # "-" THEN <<s>>
    ELSE LET i == CHOOSE k \in 1..Len(s) :
                      s[k] = "-" /\ \A j \in 1..(k - 1) : s[j] # "-"
         IN <<SubSeq(s, 1, i - 1)>> \o Split(SubSeq(s, i + 1, Len(s)))

\* the longest prefix of s made of digits
RECURSIVE DigitPrefix(_)
DigitPrefix(s) == IF s = <<>> \/ ~IsDigit(s[1]) THEN <<>>
                  ELSE <<s[1]>> \o DigitPrefix(Tail(s))

RECURSIVE DigitsValue(_)
DigitsValue(s) == IF s = <<>> THEN 0
                  ELSE DigitsValue(SubSeq(s, 1, Len(s) - 1)) * 10 + DigitVal(s[Len(s)])

NaN == -1

\* parseInt(s, 10) for strings without leading white space or sign: the value of
\* the leading digits, NaN when there is none
ParseInt(s) == IF DigitPrefix(s) = <<>> THEN NaN ELSE DigitsValue(DigitPrefix(s))

-----------------------------------------------------------------------------
(* Calendar: Date getters of local time, day 0 = Sunday 2025-06-01          *)

DaysInMonth == <<31, 28, 31, 30, 31, 30, 31, 31, 30, 31, 30, 31>>

RECURSIVE MonthDay(_, _)
MonthDay(month, dayOfMonth) ==
    IF dayOfMonth <= DaysInMonth[month] THEN [month |-> month, date |-> dayOfMonth]
    ELSE MonthDay(month + 1, dayOfMonth - DaysInMonth[month])

getFullYear(day) == 2025
getMonth(day) == MonthDay(6, day + 1).month - 1      \* 0-indexed, as in JavaScript
getDate(day) == MonthDay(6, day + 1).date

-----------------------------------------------------------------------------
(* utils/purchaseOrderUtils.ts                                             *)

\* `PO-${getFullYear()}${month padded to 2}${date padded to 2}`
DatePrefix(today) ==
    <<"P", "O", "-">> \o NumberToString(getFullYear(today))
        \o PadStart(NumberToString(getMonth(today) + 1), 2, "0")
        \o PadStart(NumberToString(getDate(today)), 2, "0")

\* po.split('-')[2]; the empty string stands for undefined (both are falsy)
SequencePart(po) == IF Len(Split(po)) >= 3 THEN Split(po)[3] ELSE <<>>

\* the forEach loop over todaysPONumbers, started with maxSequence
RECURSIVE MaxSequence(_, _)
MaxSequence(todaysPONumbers, maxSequence) ==
    IF todaysPONumbers = <<>> THEN maxSequence
    ELSE LET sequencePart == SequencePart(Head(todaysPONumbers))
             sequence == ParseInt(sequencePart)
         IN MaxSequence(Tail(todaysPONumbers),
                        IF sequencePart # <<>> /\ sequence # NaN /\ sequence > maxSequence
                        THEN sequence ELSE maxSequence)

TodaysMaxSequence(existingPONumbers, today) ==
    LET datePrefix == DatePrefix(today)
        todaysPONumbers == SelectSeq(existingPONumbers, LAMBDA po : StartsWith(po, datePrefix))
    IN MaxSequence(todaysPONumbers, 0)

generatePurchaseOrderNumber(existingPONumbers, today) ==
    LET nextSequence == TodaysMaxSequence(existingPONumbers, today) + 1
    IN DatePrefix(today) \o <<"-">> \o PadStart(NumberToString(nextSequence), 4, "0")

\* /^PO-\d{8}-\d{4}$/
isValidPurchaseOrderNumber(poNumber) ==
    /\ Len(poNumber) = 16
    /\ SubSeq(poNumber, 1, 3) = <<"P", "O", "-">>
    /\ \A i \in 4..11 : IsDigit(poNumber[i])
    /\ poNumber[12] = "-"
    /\ \A i \in 13..16 : IsDigit(poNumber[i])

-----------------------------------------------------------------------------
(* utils/dateUtils.ts                                                      *)

\* startOfWeek(date, { weekStartsOn: 0 }): the Sunday on or before the date
getWeekStart(date) == date - (date % 7)

\* format(getWeekStart(date), 'yyyy-MM-dd'): year, month and day of the week start
\* variant: the key of a date is the date itself, not the Sunday of its week
getWeekKey_OfDay(date) ==
    <<getFullYear(date), getMonth(date) + 1, getDate(date)>>

getWeekKey(date) ==
    <<getFullYear(getWeekStart(date)), getMonth(getWeekStart(date)) + 1,
      getDate(getWeekStart(date))>>

\* A Date with a time of day is a count of hours from day 0, 00:00 local time;
\* startOfWeek and format read its local calendar day (setHours(0, 0, 0, 0)).
LocalDay(instant) == instant \div 24

getWeekKeyAt(instant) == getWeekKey(LocalDay(instant))

-----------------------------------------------------------------------------
(* data/products.ts and the values of types/index.ts                       *)

Lb(n) == n * 100      \* n pounds, in hundredths

Undefined == "undefined"
UndefinedDate == -1
UndefinedId == -1
NoPO == <<>>

SEAFOOD_PRODUCTS == <<
    [id |-> "tuna",    minQuota |-> Lb(100), maxQuota |-> Lb(500)],
    [id |-> "sword",   minQuota |-> Lb(80),  maxQuota |-> Lb(300)],
    [id |-> "mahi",    minQuota |-> Lb(60),  maxQuota |-> Lb(250)],
    [id |-> "wahoo",   minQuota |-> Lb(50),  maxQuota |-> Lb(200)],
    [id |-> "grouper", minQuota |-> Lb(70),  maxQuota |-> Lb(350)],
    [id |-> "snapper", minQuota |-> Lb(90),  maxQuota |-> Lb(400)],
    [id |-> "salmon",  minQuota |-> Lb(120), maxQuota |-> Lb(600)],
    [id |-> "seabass", minQuota |-> Lb(40),  maxQuota |-> Lb(180)],
    [id |-> "other",   minQuota |-> Lb(0),   maxQuota |-> Lb(1000)] >>

initialState ==
    [products |-> SEAFOOD_PRODUCTS, purchases |-> <<>>, shipments |-> <<>>,
     weeklyQuotas |-> <<>>]

-----------------------------------------------------------------------------
(* hooks/useAppState: getQuotaStatus                                       *)

RECURSIVE SumPounds(_)
SumPounds(ps) == IF ps = <<>> THEN 0 ELSE Head(ps).totalPounds + SumPounds(Tail(ps))

\* state.purchases.filter(productId and week key match).reduce(sum of totalPounds)
CurrentTotal(st, productId, weekStart) ==
    LET weekKey == getWeekKey(weekStart)
    IN SumPounds(SelectSeq(st.purchases,
                           LAMBDA p : /\ p.productId = productId
                                      /\ getWeekKey(p.estimatedArrival) = weekKey))

\* (currentTotal / maxQuota) * 100 as the exact fraction num / den
Percentage(currentTotal, maxQuota) ==
    IF maxQuota > 0 THEN [num |-> currentTotal * 100, den |-> maxQuota]
    ELSE [num |-> 0, den |-> 1]

AtLeast(percentage, n) == percentage.num >= n * percentage.den

NearMaxPercent == 90

\* variant: a total equal to maxQuota already counts as over
StatusOfOverAtMax(currentTotal, minQuota, maxQuota) ==
    IF currentTotal >= maxQuota THEN "over"
    ELSE IF AtLeast(Percentage(currentTotal, maxQuota), NearMaxPercent) THEN "near-max"
    ELSE IF currentTotal >= minQuota THEN "good"
    ELSE "under"

\* variant: the percentage rule is tried before the over rule
StatusOfNearMaxFirst(currentTotal, minQuota, maxQuota) ==
    IF AtLeast(Percentage(currentTotal, maxQuota), NearMaxPercent) THEN "near-max"
    ELSE IF currentTotal > maxQuota THEN "over"
    ELSE IF currentTotal >= minQuota THEN "good"
    ELSE "under"

StatusOf(currentTotal, minQuota, maxQuota) ==
    IF currentTotal > maxQuota THEN "over"
    ELSE IF AtLeast(Percentage(currentTotal, maxQuota), NearMaxPercent) THEN "near-max"
    ELSE IF currentTotal >= minQuota THEN "good"
    ELSE "under"

ProductNotFound == [threw |-> "Product not found"]

getQuotaStatus(st, productId, weekStart) ==
    IF \A i \in 1..Len(st.products) : st.products[i].id # productId
    THEN ProductNotFound
    ELSE LET product == st.products[CHOOSE i \in 1..Len(st.products) :
                                        /\ st.products[i].id = productId
                                        /\ \A j \in 1..(i - 1) : st.products[j].id # productId]
             currentTotal == CurrentTotal(st, productId, weekStart)
         IN [product |-> product,
             currentTotal |-> currentTotal,
             minQuota |-> product.minQuota,
             maxQuota |-> product.maxQuota,
             percentage |-> Percentage(currentTotal, product.maxQuota),
             status |-> StatusOf(currentTotal, product.minQuota, product.maxQuota)]

-----------------------------------------------------------------------------
(* hooks/useAppState: appReducer                                           *)

RetentionDays == 30

\* variant: only an approved shipment gets purchase records
ShipmentPurchasesApprovedOnly(shipment) ==
    IF shipment.approvalStatus = "approved"
    THEN [i \in 1..Len(shipment.products) |->
            [id |-> <<shipment.id, i>>,
             productId |-> shipment.products[i].productId,
             totalPounds |-> shipment.products[i].totalPounds,
             weekStartDate |-> shipment.weekStartDate,
             estimatedArrival |-> shipment.estimatedArrival,
             shipmentId |-> shipment.id]]
    ELSE <<>>

\* shipment.products.map(product => purchase record), empty for a rejected shipment
ShipmentPurchases(shipment) ==
    IF shipment.approvalStatus # "rejected"
    THEN [i \in 1..Len(shipment.products) |->
            [id |-> <<shipment.id, i>>,
             productId |-> shipment.products[i].productId,
             totalPounds |-> shipment.products[i].totalPounds,
             weekStartDate |-> shipment.weekStartDate,
             estimatedArrival |-> shipment.estimatedArrival,
             shipmentId |-> shipment.id]]
    ELSE <<>>

HasShipment(st, shipmentId) == \E i \in 1..Len(st.shipments) : st.shipments[i].id = shipmentId

\* state.shipments.find(s => s.id === shipmentId), when there is one
FindShipment(st, shipmentId) ==
    st.shipments[CHOOSE i \in 1..Len(st.shipments) :
                    /\ st.shipments[i].id = shipmentId
                    /\ \A j \in 1..(i - 1) : st.shipments[j].id # shipmentId]

\* state.shipments.map(s => s.id === id ? replacement : s)
ReplaceShipment(shipments, id, replacement) ==
    [i \in 1..Len(shipments) |-> IF shipments[i].id = id THEN replacement ELSE shipments[i]]

\* state.purchases.filter(p => p.shipmentId !== id)
WithoutShipment(purchases, id) == SelectSeq(purchases, LAMBDA p : p.shipmentId # id)

ADD_PURCHASE(st, action) ==
    [st EXCEPT !.purchases = Append(@, action.purchase)]

ADD_SHIPMENT(st, action) ==
    [st EXCEPT !.shipments = Append(@, action.shipment),
               !.purchases = @ \o ShipmentPurchases(action.shipment)]

\* variant: edit appends the new purchase records without removing the old ones
EDIT_SHIPMENT_Appending(st, action) ==
    [st EXCEPT !.shipments = ReplaceShipment(@, action.shipment.id, action.shipment),
               !.purchases = @ \o ShipmentPurchases(action.shipment)]

EDIT_SHIPMENT(st, action) ==
    [st EXCEPT !.shipments = ReplaceShipment(@, action.shipment.id, action.shipment),
               !.purchases = WithoutShipment(@, action.shipment.id)
                                \o ShipmentPurchases(action.shipment)]

\* variant: delete leaves the purchase records of the shipment in the index
DELETE_SHIPMENT_KeepingPurchases(st, action) ==
    [st EXCEPT !.shipments = SelectSeq(@, LAMBDA s : s.id # action.shipmentId)]

DELETE_SHIPMENT(st, action) ==
    [st EXCEPT !.shipments = SelectSeq(@, LAMBDA s : s.id # action.shipmentId),
               !.purchases = WithoutShipment(@, action.shipmentId)]

\* variant: reject leaves the purchase records of the shipment in the index
REJECT_SHIPMENT_KeepingPurchases(st, action, clock) ==
    IF ~HasShipment(st, action.shipmentId) THEN st
    ELSE LET rejectedShipment == FindShipment(st, action.shipmentId)
             updatedShipment == [rejectedShipment EXCEPT !.approvalStatus = "rejected",
                                                         !.rejectedAt = clock]
         IN [st EXCEPT !.shipments = ReplaceShipment(@, action.shipmentId, updatedShipment)]

\* variant: reject sets the status and records no rejectedAt
REJECT_SHIPMENT_Undated(st, action, clock) ==
    IF ~HasShipment(st, action.shipmentId) THEN st
    ELSE LET rejectedShipment == FindShipment(st, action.shipmentId)
             updatedShipment == [rejectedShipment EXCEPT !.approvalStatus = "rejected"]
         IN [st EXCEPT !.shipments = ReplaceShipment(@, action.shipmentId, updatedShipment),
                       !.purchases = WithoutShipment(@, action.shipmentId)]

REJECT_SHIPMENT(st, action, clock) ==
    IF ~HasShipment(st, action.shipmentId) THEN st
    ELSE LET rejectedShipment == FindShipment(st, action.shipmentId)
             updatedShipment == [rejectedShipment EXCEPT !.approvalStatus = "rejected",
                                                         !.rejectedAt = clock]
         IN [st EXCEPT !.shipments = ReplaceShipment(@, action.shipmentId, updatedShipment),
                       !.purchases = WithoutShipment(@, action.shipmentId)]

\* variant: unreject does not look at the status of the shipment
UNREJECT_SHIPMENT_AnyStatus(st, action) ==
    IF ~HasShipment(st, action.shipmentId) THEN st
    ELSE LET rejectedShipment == FindShipment(st, action.shipmentId)
             restoredShipment == [rejectedShipment EXCEPT !.approvalStatus = "pending",
                                                          !.rejectedAt = UndefinedDate]
         IN [st EXCEPT !.shipments = ReplaceShipment(@, action.shipmentId, restoredShipment)]

\* variant: unreject puts the purchase records of the shipment back
UNREJECT_SHIPMENT_Restoring(st, action) ==
    IF \/ ~HasShipment(st, action.shipmentId)
       \/ FindShipment(st, action.shipmentId).approvalStatus # "rejected"
    THEN st
    ELSE LET rejectedShipment == FindShipment(st, action.shipmentId)
             restoredShipment == [rejectedShipment EXCEPT !.approvalStatus = "pending",
                                                          !.rejectedAt = UndefinedDate]
         IN [st EXCEPT !.shipments = ReplaceShipment(@, action.shipmentId, restoredShipment),
                       !.purchases = @ \o ShipmentPurchases(restoredShipment)]

UNREJECT_SHIPMENT(st, action) ==
    IF \/ ~HasShipment(st, action.shipmentId)
       \/ FindShipment(st, action.shipmentId).approvalStatus # "rejected"
    THEN st
    ELSE LET rejectedShipment == FindShipment(st, action.shipmentId)
             restoredShipment == [rejectedShipment EXCEPT !.approvalStatus = "pending",
                                                          !.rejectedAt = UndefinedDate]
         IN [st EXCEPT !.shipments = ReplaceShipment(@, action.shipmentId, restoredShipment)]

\* variant: the sweep removes every rejected shipment, whatever its age
DELETE_OLD_REJECTED_AnyAge(st, clock) ==
    [st EXCEPT !.shipments = SelectSeq(@, LAMBDA s : s.approvalStatus # "rejected")]

\* variant: one run of the sweep removes only the first shipment that is due
DELETE_OLD_REJECTED_OneAtATime(st, clock) ==
    LET thirtyDaysAgo == clock - RetentionDays
        due == {i \in 1..Len(st.shipments) :
                   /\ st.shipments[i].approvalStatus = "rejected"
                   /\ st.shipments[i].rejectedAt # UndefinedDate
                   /\ ~(st.shipments[i].rejectedAt > thirtyDaysAgo)}
    IN IF due = {} THEN st
       ELSE LET first == CHOOSE i \in due : \A j \in due : i <= j
            IN [st EXCEPT !.shipments =
                   SubSeq(@, 1, first - 1) \o SubSeq(@, first + 1, Len(@))]

DELETE_OLD_REJECTED(st, clock) ==
    LET thirtyDaysAgo == clock - RetentionDays
    IN [st EXCEPT !.shipments =
           SelectSeq(@, LAMBDA s : IF s.approvalStatus # "rejected" THEN TRUE
                                   ELSE IF s.rejectedAt = UndefinedDate THEN TRUE
                                   ELSE s.rejectedAt > thirtyDaysAgo)]

UPDATE_PRODUCT(st, action) ==
    [st EXCEPT !.products =
        [i \in 1..Len(@) |-> IF @[i].id = action.product.id THEN action.product ELSE @[i]]]

\* q.productId === quota.productId && q.weekStartDate.getTime() === quota.weekStartDate.getTime()
SameQuota(q, quota) ==
    q.productId = quota.productId /\ q.weekStartDate = quota.weekStartDate

SET_WEEKLY_QUOTA(st, action) ==
    [st EXCEPT !.weeklyQuotas =
        IF \E i \in 1..Len(@) : SameQuota(@[i], action.quota)
        THEN [i \in 1..Len(@) |-> IF SameQuota(@[i], action.quota) THEN action.quota ELSE @[i]]
        ELSE Append(@, action.quota)]

appReducer(st, action, clock) ==
    CASE action.type = "ADD_PURCHASE" -> ADD_PURCHASE(st, action)
      [] action.type = "ADD_SHIPMENT" -> ADD_SHIPMENT(st, action)
      [] action.type = "EDIT_SHIPMENT" -> EDIT_SHIPMENT(st, action)
      [] action.type = "DELETE_SHIPMENT" -> DELETE_SHIPMENT(st, action)
      [] action.type = "REJECT_SHIPMENT" -> REJECT_SHIPMENT(st, action, clock)
      [] action.type = "UNREJECT_SHIPMENT" -> UNREJECT_SHIPMENT(st, action)
      [] action.type = "DELETE_OLD_REJECTED" -> DELETE_OLD_REJECTED(st, clock)
      [] action.type = "UPDATE_PRODUCT" -> UPDATE_PRODUCT(st, action)
      [] action.type = "SET_WEEKLY_QUOTA" -> SET_WEEKLY_QUOTA(st, action)
      [] OTHER -> st

-----------------------------------------------------------------------------
(* hooks/useAppState: initializeState, over what loadAppState returns      *)

NoSavedState == [saved |-> FALSE]

\* savedState.shipments.map: approvalStatus || 'approved', purchaseOrderNumber || undefined
MigrateShipment(shipment) ==
    [shipment EXCEPT !.approvalStatus = IF @ = Undefined THEN "approved" ELSE @]

initializeState(savedState) ==
    IF savedState = NoSavedState THEN initialState
    ELSE [products |->
            [i \in 1..Len(SEAFOOD_PRODUCTS) |->
                IF \E j \in 1..Len(savedState.products) :
                        savedState.products[j].id = SEAFOOD_PRODUCTS[i].id
                THEN savedState.products[CHOOSE j \in 1..Len(savedState.products) :
                        /\ savedState.products[j].id = SEAFOOD_PRODUCTS[i].id
                        /\ \A k \in 1..(j - 1) :
                               savedState.products[k].id # SEAFOOD_PRODUCTS[i].id]
                ELSE SEAFOOD_PRODUCTS[i]],
          purchases |-> savedState.purchases,
          shipments |-> [i \in 1..Len(savedState.shipments) |->
                            MigrateShipment(savedState.shipments[i])],
          weeklyQuotas |-> savedState.weeklyQuotas]

-----------------------------------------------------------------------------
(* components/PurchaseForm: handleSubmit                                   *)

\* parseDateInput("YYYY-MM-DD"): new Date(year, month - 1, day), as a day number
RECURSIVE DaysBefore(_)
DaysBefore(month) == IF month <= 6 THEN 0 ELSE DaysInMonth[month - 1] + DaysBefore(month - 1)

parseDateInput(dateString) == DaysBefore(dateString[2]) + dateString[3] - 1

\* new Date(year, month, day) as a day number; the years of the runs have 365 days
NewDate(year, month, day) == (year - 2025) * 365 + DaysBefore(month + 1) + day - 1

\* s.substring(start, end)
Substring(s, start, end) == SubSeq(s, start + 1, end)

NullDate == UndefinedDate

\* utils/purchaseOrderUtils.ts: new Date(year, month, day) of the date segment,
\* null for a number that is not of the format
getDateFromPurchaseOrderNumber(poNumber) ==
    IF ~isValidPurchaseOrderNumber(poNumber) THEN NullDate
    ELSE LET dateStr == Split(poNumber)[2]
             year == ParseInt(Substring(dateStr, 0, 4))
             month == ParseInt(Substring(dateStr, 4, 6)) - 1
             day == ParseInt(Substring(dateStr, 6, 8))
         IN NewDate(year, month, day)

\* s.trim() over the strings the forms hold
Trim(s) == IF s = " " THEN "" ELSE s

RECURSIVE SumItems(_)
SumItems(items) == IF items = <<>> THEN 0 ELSE Head(items) + SumItems(Tail(items))

Abs(n) == IF n < 0 THEN -n ELSE n

\* the checks before the approval decision; FALSE where handleSubmit alerts and returns
FormIsValid(form) ==
    /\ Trim(form.shipper) # ""
    /\ form.estimatedArrival # <<>>
    /\ \A i \in 1..Len(form.products) :
          LET product == form.products[i]
          IN /\ product.productId # ""
             /\ product.totalPounds > 0
             /\ ~(product.productId = "other" /\ Trim(product.customProductName) = "")
             /\ ~(Abs(SumItems(product.items) - product.totalPounds) > 1)

\* the loop over the form's products: TRUE as soon as one of them requires approval
RECURSIVE RequiresApproval(_, _, _)
RequiresApproval(snap, products, weekStart) ==
    IF products = <<>> THEN FALSE
    ELSE LET product == Head(products)
             currentQuotaStatus == getQuotaStatus(snap, product.productId, weekStart)
         IN IF product.productId = "other"
            THEN RequiresApproval(snap, Tail(products), weekStart)
            ELSE IF currentQuotaStatus.status \in {"near-max", "over"} THEN TRUE
            ELSE IF currentQuotaStatus.currentTotal + product.totalPounds
                        > currentQuotaStatus.maxQuota THEN TRUE
            ELSE RequiresApproval(snap, Tail(products), weekStart)

\* state.shipments.filter(approved with a number).map(purchaseOrderNumber)
ExistingPONumbers(snap) ==
    LET approved == SelectSeq(snap.shipments,
                              LAMBDA s : s.approvalStatus = "approved"
                                         /\ s.purchaseOrderNumber # NoPO)
    IN [i \in 1..Len(approved) |-> approved[i].purchaseOrderNumber]

NoAction == [type |-> "none"]
NotEditing == [id |-> UndefinedId]

\* getQuotaStatus throws for a product that is not in the catalog
SubmitThrows(snap, form) ==
    \E i \in 1..Len(form.products) :
        /\ form.products[i].productId # "other"
        /\ getQuotaStatus(snap, form.products[i].productId, 0) = ProductNotFound

\* the action handleSubmit dispatches: none when it returns early
handleSubmit(snap, form, editingShipment, clock, freshId) ==
    IF ~FormIsValid(form) \/ SubmitThrows(snap, form) THEN NoAction
    ELSE LET estimatedArrivalDate == parseDateInput(form.estimatedArrival)
             weekStart == getWeekStart(estimatedArrivalDate)
             requiresApproval == RequiresApproval(snap, form.products, weekStart)
             approvalStatus == IF requiresApproval THEN "pending" ELSE "approved"
             purchaseOrderNumber ==
                 IF approvalStatus = "approved"
                 THEN generatePurchaseOrderNumber(ExistingPONumbers(snap), clock)
                 ELSE NoPO
             isEditing == editingShipment # NotEditing
             shipmentId == IF isEditing THEN editingShipment.id ELSE freshId
             shipment ==
                 [id |-> shipmentId,
                  estimatedArrival |-> estimatedArrivalDate,
                  weekStartDate |-> weekStart,
                  products |-> [i \in 1..Len(form.products) |->
                                   [productId |-> form.products[i].productId,
                                    totalPounds |-> form.products[i].totalPounds]],
                  approvalStatus |-> approvalStatus,
                  purchaseOrderNumber |-> purchaseOrderNumber,
                  rejectedAt |-> UndefinedDate]
         IN IF isEditing THEN [type |-> "EDIT_SHIPMENT", shipment |-> shipment]
            ELSE [type |-> "ADD_SHIPMENT", shipment |-> shipment]

\* variant: the inputs of the size breakdown carry no min attribute
ConstraintsHold_NoItemMin(form) ==
    /\ form.shipper # ""
    /\ form.estimatedArrival # <<>>
    /\ \A i \in 1..Len(form.products) :
          LET product == form.products[i]
          IN /\ product.productId # ""
             /\ (product.productId = "other" => product.customProductName # "")
             /\ product.totalPounds >= 0

\* the constraints of the form's inputs: required on shipper, arrival date,
\* product, custom name and total pounds, min="0" on total and item pounds
ConstraintsHold(form) ==
    /\ form.shipper # ""
    /\ form.estimatedArrival # <<>>
    /\ \A i \in 1..Len(form.products) :
          LET product == form.products[i]
          IN /\ product.productId # ""
             /\ (product.productId = "other" => product.customProductName # "")
             /\ product.totalPounds >= 0
             /\ \A k \in 1..Len(product.items) : product.items[k] >= 0

\* <form onSubmit={handleSubmit}>: the submit event is fired, and the handler
\* called, only when every input satisfies its constraints
onSubmit(snap, form, editingShipment, clock, freshId) ==
    IF ConstraintsHold(form)
    THEN handleSubmit(snap, form, editingShipment, clock, freshId)
    ELSE NoAction

-----------------------------------------------------------------------------
(* components/PendingPurchases: the handlers                               *)

\* variant: approve sets the status and leaves the shipment without a number
handleApproveShipment_Unnumbered(snap, shipment, clock) ==
    LET approvedShipment == [shipment EXCEPT !.approvalStatus = "approved"]
    IN [type |-> "EDIT_SHIPMENT", shipment |-> approvedShipment]

handleApproveShipment(snap, shipment, clock) ==
    LET purchaseOrderNumber == generatePurchaseOrderNumber(ExistingPONumbers(snap), clock)
        approvedShipment == [shipment EXCEPT !.approvalStatus = "approved",
                                             !.purchaseOrderNumber = purchaseOrderNumber]
    IN [type |-> "EDIT_SHIPMENT", shipment |-> approvedShipment]

handleRejectShipment(shipment) == [type |-> "REJECT_SHIPMENT", shipmentId |-> shipment.id]

handleUnrejectShipment(shipmentId) == [type |-> "UNREJECT_SHIPMENT", shipmentId |-> shipmentId]

confirmDeleteShipment(shipmentToDelete) ==
    [type |-> "DELETE_SHIPMENT", shipmentId |-> shipmentToDelete.id]

\* the cards a render shows: pendingShipments, rejectedShipments, and the
\* filteredShipments of PurchasesList (every shipment but the rejected ones)
Shown(snap) == {snap.shipments[i] : i \in 1..Len(snap.shipments)}
pendingShipments(snap) == {s \in Shown(snap) : s.approvalStatus = "pending"}
rejectedShipments(snap) == {s \in Shown(snap) : s.approvalStatus = "rejected"}
filteredShipments(snap) == {s \in Shown(snap) : s.approvalStatus # "rejected"}

-----------------------------------------------------------------------------
(* Inputs                                                                  *)

Line(productId, name, pounds) ==
    [productId |-> productId, customProductName |-> name,
     totalPounds |-> pounds, items |-> <<pounds>>]

\* one line of tuna for the week of June 1; two lines of tuna for the week of
\* June 8; an "other" line above the quota of "other" beside a line of tuna
ValidForms ==
    { [shipper |-> "Gulf Seafood", estimatedArrival |-> <<2025, 6, 3>>,
       products |-> <<Line("tuna", "", Lb(300))>>],
      [shipper |-> "Gulf Seafood", estimatedArrival |-> <<2025, 6, 10>>,
       products |-> <<Line("tuna", "", Lb(300)), Line("tuna", "", Lb(300))>>],
      [shipper |-> "Gulf Seafood", estimatedArrival |-> <<2025, 6, 3>>,
       products |-> <<Line("other", "crab", Lb(1200)), Line("tuna", "", Lb(200))>>] }

InvalidForms ==
    { [shipper |-> " ", estimatedArrival |-> <<2025, 6, 3>>,
       products |-> <<Line("tuna", "", Lb(200))>>],
      [shipper |-> "Gulf Seafood", estimatedArrival |-> <<>>,
       products |-> <<Line("tuna", "", Lb(200))>>],
      [shipper |-> "Gulf Seafood", estimatedArrival |-> <<2025, 6, 3>>,
       products |-> <<Line("", "", Lb(200))>>],
      [shipper |-> "Gulf Seafood", estimatedArrival |-> <<2025, 6, 3>>,
       products |-> <<Line("tuna", "", 0)>>],
      [shipper |-> "Gulf Seafood", estimatedArrival |-> <<2025, 6, 3>>,
       products |-> <<Line("other", " ", Lb(300))>>],
      [shipper |-> "Gulf Seafood", estimatedArrival |-> <<2025, 6, 3>>,
       products |-> <<[productId |-> "tuna", customProductName |-> "",
                       totalPounds |-> Lb(200), items |-> <<Lb(100), Lb(50)>>]>>],
      [shipper |-> "Gulf Seafood", estimatedArrival |-> <<2025, 6, 3>>,
       products |-> <<[productId |-> "tuna", customProductName |-> "",
                       totalPounds |-> Lb(200), items |-> <<Lb(300), -Lb(100)>>]>>],
      [shipper |-> "Gulf Seafood", estimatedArrival |-> <<2025, 6, 3>>,
       products |-> <<Line("tuna", "", Lb(200)),
                      [productId |-> "sword", customProductName |-> "",
                       totalPounds |-> -Lb(50), items |-> <<-Lb(50)>>]>>] }

Forms == ValidForms \cup InvalidForms

\* a shipment saved by a version of the application without the approval fields
LegacyShipment ==
    [id |-> 0, estimatedArrival |-> 2, weekStartDate |-> 0,
     products |-> <<[productId |-> "tuna", totalPounds |-> Lb(450)]>>,
     approvalStatus |-> Undefined, purchaseOrderNumber |-> NoPO,
     rejectedAt |-> UndefinedDate]

LegacySnapshot ==
    [saved |-> TRUE, products |-> SEAFOOD_PRODUCTS,
     purchases |-> ShipmentPurchases(LegacyShipment),
     shipments |-> <<LegacyShipment>>, weeklyQuotas |-> <<>>]

\* a state saved when purchases were entered one by one, without shipments
LedgerSnapshot ==
    [saved |-> TRUE, products |-> SEAFOOD_PRODUCTS,
     purchases |-> <<[id |-> <<UndefinedId, 1>>, productId |-> "tuna",
                      totalPounds |-> Lb(450), weekStartDate |-> 0,
                      estimatedArrival |-> 2, shipmentId |-> UndefinedId]>>,
     shipments |-> <<>>, weeklyQuotas |-> <<>>]

SavedStates == {NoSavedState, LegacySnapshot, LedgerSnapshot}

-----------------------------------------------------------------------------
(* The store and its handlers                                              *)

NoCall == [existing |-> <<>>, today |-> UndefinedDate]

Init ==
    /\ \E savedState \in SavedStates :
          /\ state = initializeState(savedState)
          /\ nextId = Len(state.shipments) + 1
    /\ view = state
    /\ now = 0
    /\ lag = 0
    /\ lastOp = [op |-> "init", id |-> UndefinedId]
    /\ poIn = NoCall
    /\ poOut = <<>>
    /\ outbox = <<>>

\* the sequence numbers of a run stay within MaxIssued
WithinIssued(action) ==
    action.type \in {"ADD_SHIPMENT", "EDIT_SHIPMENT"} =>
        \/ action.shipment.purchaseOrderNumber = NoPO
        \/ ParseInt(SequencePart(action.shipment.purchaseOrderNumber)) <= MaxIssued

\* the reducer runs on the current state, whatever render the handler came from
Dispatch(action, op, id) ==
    /\ WithinIssued(action)
    /\ state' = appReducer(state, action, now)
    /\ lastOp' = [op |-> op, id |-> id]

\* A handler called from the latest render is followed by the next render; one
\* called again from the same render leaves the closed-over state behind.
Commit(rerender) ==
    IF rerender THEN lag = 0 /\ view' = state' /\ lag' = 0
    ELSE lag <= MaxLag /\ lag' = lag + 1 /\ UNCHANGED view

Submit(rerender, forms, limit) ==
    /\ nextId <= limit
    /\ \E form \in forms :
          LET action == onSubmit(view, form, NotEditing, now, nextId)
          IN IF action = NoAction THEN UNCHANGED vars
             ELSE /\ Dispatch(action, "submit", nextId)
                  /\ nextId' = nextId + 1
                  /\ Commit(rerender)
                  /\ UNCHANGED <<now, poIn, poOut, outbox>>

Edit(rerender, forms) ==
    \E editingShipment \in filteredShipments(view), form \in forms :
        LET action == onSubmit(view, form, editingShipment, now, nextId)
        IN IF action = NoAction THEN UNCHANGED vars
           ELSE /\ Dispatch(action, "edit", editingShipment.id)
                /\ Commit(rerender)
                /\ UNCHANGED <<now, nextId, poIn, poOut, outbox>>

Approve(rerender) ==
    \E shipment \in pendingShipments(view) :
        /\ Dispatch(handleApproveShipment(view, shipment, now), "approve", shipment.id)
        /\ Commit(rerender)
        /\ UNCHANGED <<now, nextId, poIn, poOut, outbox>>

Reject(rerender) ==
    \E shipment \in pendingShipments(view) :
        /\ Dispatch(handleRejectShipment(shipment), "reject", shipment.id)
        /\ Commit(rerender)
        /\ UNCHANGED <<now, nextId, poIn, poOut, outbox>>

Unreject(rerender) ==
    \E shipment \in rejectedShipments(view) :
        /\ Dispatch(handleUnrejectShipment(shipment.id), "unreject", shipment.id)
        /\ Commit(rerender)
        /\ UNCHANGED <<now, nextId, poIn, poOut, outbox>>

Delete(rerender) ==
    \E shipmentToDelete \in Shown(view) :
        /\ Dispatch(confirmDeleteShipment(shipmentToDelete), "delete", shipmentToDelete.id)
        /\ Commit(rerender)
        /\ UNCHANGED <<now, nextId, poIn, poOut, outbox>>

\* the useEffect of PendingPurchases: on mount and then daily
Sweep(rerender) ==
    /\ Dispatch([type |-> "DELETE_OLD_REJECTED"], "sweep", UndefinedId)
    /\ Commit(rerender)
    /\ UNCHANGED <<now, nextId, poIn, poOut, outbox>>

Tick ==
    /\ now < MaxDay
    /\ now' = now + 1
    /\ UNCHANGED <<state, view, nextId, lag, lastOp, poIn, poOut, outbox>>

SubmitShipment == Submit(TRUE, Forms, MaxShipments)
EditShipment == Edit(TRUE, Forms)
ApproveShipment == Approve(TRUE)
RejectShipment == Reject(TRUE)
UnrejectShipment == Unreject(TRUE)
DeleteShipment == Delete(TRUE)
RetentionSweep == Sweep(TRUE)

Next ==
    \/ SubmitShipment
    \/ EditShipment
    \/ ApproveShipment
    \/ RejectShipment
    \/ UnrejectShipment
    \/ DeleteShipment
    \/ RetentionSweep
    \/ Tick

Spec == Init /\ [][Next]_vars

-----------------------------------------------------------------------------
(* Runs over the retention period of rejected shipments: the shipments are *)
(* submitted on the first day over a store that already holds 450 lb of    *)
(* tuna, the clock then passes to the last day before the retention period *)
(* ends and on day by day.                                                 *)

InitSweep ==
    /\ state = initializeState(LedgerSnapshot)
    /\ view = state
    /\ now = 0
    /\ nextId = 1
    /\ lag = 0
    /\ lastOp = [op |-> "init", id |-> UndefinedId]
    /\ poIn = NoCall
    /\ poOut = <<>>
    /\ outbox = <<>>

\* tuna for the week of June 1 (held for approval), tuna for the week of June 8
SweepForms ==
    { [shipper |-> "Gulf Seafood", estimatedArrival |-> <<2025, 6, 3>>,
       products |-> <<Line("tuna", "", Lb(300))>>],
      [shipper |-> "Gulf Seafood", estimatedArrival |-> <<2025, 6, 10>>,
       products |-> <<Line("tuna", "", Lb(300))>>] }

SweepSubmit ==
    /\ now = 0
    /\ Submit(TRUE, SweepForms, MaxSweepShipments)

SweepTick ==
    /\ now < RetentionDays + MaxOverdue
    /\ now' = IF now = 0 THEN RetentionDays - 1 ELSE now + 1
    /\ UNCHANGED <<state, view, nextId, lag, lastOp, poIn, poOut, outbox>>

NextSweep ==
    \/ SweepSubmit
    \/ ApproveShipment
    \/ RejectShipment
    \/ UnrejectShipment
    \/ DeleteShipment
    \/ RetentionSweep
    \/ SweepTick

SpecSweep == InitSweep /\ [][NextSweep]_vars

\* The clock of the runs ends RetentionDays + MaxOverdue days after their
\* start: a rejection is followed by its whole retention period when it is
\* made in the first MaxOverdue days.
TimelyReject ==
    /\ now <= MaxOverdue
    /\ RejectShipment

NextRetention ==
    \/ SweepSubmit
    \/ ApproveShipment
    \/ TimelyReject
    \/ UnrejectShipment
    \/ DeleteShipment
    \/ RetentionSweep
    \/ SweepTick

\* the interval of the useEffect keeps dispatching the sweep, and time passes
SpecRetention ==
    /\ InitSweep
    /\ [][NextRetention]_vars
    /\ WF_vars(RetentionSweep)
    /\ WF_vars(SweepTick)

-----------------------------------------------------------------------------
(* The notifications of handleSubmit, handleApproveShipment and            *)
(* handleRejectShipment: each handler dispatches, then, with a token and a *)
(* user to notify, starts its api call and awaits it inside try/catch; the *)
(* call settles at any later time, other handlers running in between.      *)

Notification(call, shipmentId) ==
    [call |-> call, shipmentId |-> shipmentId, status |-> "started"]

Outcomes == {"delivered", "failed"}

\* the api call the handler makes after its dispatch, or none when there is
\* no token or no user id to notify (notify = FALSE)
StartNotification(box, notify, call, shipmentId) ==
    IF notify THEN Append(box, Notification(call, shipmentId)) ELSE box

\* variant: a failed call takes the shipment out of the store again
NotificationSettled_RollingBack(st, notification, outcome) ==
    IF outcome = "failed"
    THEN DELETE_SHIPMENT(st, [type |-> "DELETE_SHIPMENT",
                              shipmentId |-> notification.shipmentId])
    ELSE st

\* after the await: console.log on success, console.warn in the catch block
NotificationSettled(st, notification, outcome) == st

NewShipmentCall(action) ==
    IF action.shipment.approvalStatus = "approved"
    THEN "slack.sendNewShipmentAutoApprovedNotification"
    ELSE "slack.sendNewShipmentPendingNotification"

CanStart(notify) == notify => Len(outbox) < MaxCalls

NotifySubmit ==
    /\ nextId <= MaxNotifyShipments
    /\ \E form \in SweepForms, notify \in BOOLEAN :
          LET action == onSubmit(view, form, NotEditing, now, nextId)
          IN /\ action # NoAction
             /\ CanStart(notify)
             /\ Dispatch(action, "submit", nextId)
             /\ outbox' = StartNotification(outbox, notify, NewShipmentCall(action), nextId)
             /\ nextId' = nextId + 1
             /\ Commit(TRUE)
             /\ UNCHANGED <<now, poIn, poOut>>

NotifyApprove ==
    \E shipment \in pendingShipments(view), notify \in BOOLEAN :
        /\ CanStart(notify)
        /\ Dispatch(handleApproveShipment(view, shipment, now), "approve", shipment.id)
        /\ outbox' = StartNotification(outbox, notify, "sendApprovalNotification", shipment.id)
        /\ Commit(TRUE)
        /\ UNCHANGED <<now, nextId, poIn, poOut>>

NotifyReject ==
    \E shipment \in pendingShipments(view), notify \in BOOLEAN :
        /\ CanStart(notify)
        /\ Dispatch(handleRejectShipment(shipment), "reject", shipment.id)
        /\ outbox' = StartNotification(outbox, notify, "sendRejectionNotification", shipment.id)
        /\ Commit(TRUE)
        /\ UNCHANGED <<now, nextId, poIn, poOut>>

Settle ==
    \E i \in 1..Len(outbox), outcome \in Outcomes :
        /\ outbox[i].status = "started"
        /\ outbox' = [outbox EXCEPT ![i].status = outcome]
        /\ state' = NotificationSettled(state, outbox[i], outcome)
        /\ view' = state'
        /\ UNCHANGED <<now, nextId, lag, lastOp, poIn, poOut>>

NextNotify ==
    \/ NotifySubmit
    \/ NotifyApprove
    \/ NotifyReject
    \/ Settle

SpecNotify == InitSweep /\ [][NextNotify]_vars

-----------------------------------------------------------------------------
(* Handlers called while the render they close over is behind the store:   *)
(* the handlers read state.shipments and getQuotaStatus of their render,   *)
(* and nothing serialises a read-decide-dispatch sequence against the      *)
(* dispatches of other handlers.                                           *)

InitRace ==
    /\ state = initializeState(NoSavedState)
    /\ view = state
    /\ now = 0
    /\ nextId = 1
    /\ lag = 0
    /\ lastOp = [op |-> "init", id |-> UndefinedId]
    /\ poIn = NoCall
    /\ poOut = <<>>
    /\ outbox = <<>>

Render ==
    /\ lag > 0
    /\ view' = state
    /\ lag' = 0
    /\ UNCHANGED <<state, now, nextId, lastOp, poIn, poOut, outbox>>

RaceForms ==
    { [shipper |-> "Gulf Seafood", estimatedArrival |-> <<2025, 6, 3>>,
       products |-> <<Line("tuna", "", Lb(300))>>],
      [shipper |-> "Gulf Seafood", estimatedArrival |-> <<2025, 6, 10>>,
       products |-> <<Line("other", "crab", Lb(1200)), Line("tuna", "", Lb(200))>>] }

RaceSubmit == Submit(FALSE, RaceForms, MaxRaceShipments)
RaceEdit == Edit(FALSE, RaceForms)
RaceApprove == Approve(FALSE)
RaceReject == Reject(FALSE)
RaceUnreject == Unreject(FALSE)
RaceDelete == Delete(FALSE)

NextRace ==
    \/ RaceSubmit
    \/ RaceEdit
    \/ RaceApprove
    \/ RaceReject
    \/ RaceUnreject
    \/ RaceDelete
    \/ Render

SpecRace == InitRace /\ [][NextRace]_vars

-----------------------------------------------------------------------------
(* The quota ledger over arbitrary catalogs and purchase records           *)

QuotaChoices == {0, Lb(100), Lb(500)}
PoundChoices == {1, Lb(50), Lb(450)}
ArrivalChoices == {6, 9}
QueryProducts == {"tuna", "other", "shark"}
QueryWeeks == {0, 7}

InitQuota ==
    /\ state = initialState
    /\ view = state
    /\ now = 0
    /\ nextId = 1
    /\ lag = 0
    /\ lastOp = [op |-> "init", id |-> UndefinedId]
    /\ poIn = NoCall
    /\ poOut = <<>>
    /\ outbox = <<>>

\* Settings.handleSave after the quotas of one product were changed in the form
UpdateProduct ==
    /\ \E minQuota \in QuotaChoices, maxQuota \in QuotaChoices :
          state' = appReducer(state,
                              [type |-> "UPDATE_PRODUCT",
                               product |-> [id |-> "tuna", minQuota |-> minQuota,
                                            maxQuota |-> maxQuota]], now)
    /\ lastOp' = [op |-> "update-product", id |-> UndefinedId]
    /\ UNCHANGED <<view, now, nextId, lag, poIn, poOut, outbox>>

AddPurchase ==
    /\ Len(state.purchases) < MaxPurchases
    /\ \E pounds \in PoundChoices, arrival \in ArrivalChoices :
          state' = appReducer(state,
                              [type |-> "ADD_PURCHASE",
                               purchase |-> [id |-> <<UndefinedId, Len(state.purchases) + 1>>,
                                             productId |-> "tuna",
                                             totalPounds |-> pounds,
                                             weekStartDate |-> getWeekStart(arrival),
                                             estimatedArrival |-> arrival,
                                             shipmentId |-> UndefinedId]], now)
    /\ lastOp' = [op |-> "add-purchase", id |-> UndefinedId]
    /\ UNCHANGED <<view, now, nextId, lag, poIn, poOut, outbox>>

NextQuota ==
    \/ UpdateProduct
    \/ AddPurchase

SpecQuota == InitQuota /\ [][NextQuota]_vars

\* the quotas a weekly override may carry: above and below the static 500 lb of tuna
OverrideChoices == {Lb(100), Lb(1000)}

\* a WeeklyQuota record for tuna is set for one of the weeks
SetWeeklyQuota ==
    /\ \E weekStart \in QueryWeeks, maxQuota \in OverrideChoices :
          state' = appReducer(state,
                              [type |-> "SET_WEEKLY_QUOTA",
                               quota |-> [productId |-> "tuna", weekStartDate |-> weekStart,
                                          minQuota |-> 0, maxQuota |-> maxQuota]], now)
    /\ lastOp' = [op |-> "set-weekly-quota", id |-> UndefinedId]
    /\ UNCHANGED <<view, now, nextId, lag, poIn, poOut, outbox>>

NextWeekly ==
    \/ AddPurchase
    \/ SetWeeklyQuota

SpecWeekly == InitQuota /\ [][NextWeekly]_vars

-----------------------------------------------------------------------------
(* getQuotaStatus over ledgers whose purchases arrive on any day of the    *)
(* weeks around the end of June, queried for a date at any time of day     *)

\* 2025-06-27 (a Friday) and the days after it, over three weeks and two months
ArrivalDates == {26 + d : d \in 0..MaxDate}

\* the first and the last hour of each of these days
QueryInstants == {date * 24 + hour : date \in ArrivalDates, hour \in {0, 23}}

InitWeek ==
    /\ state = initialState
    /\ view = state
    /\ now = 0
    /\ nextId = 1
    /\ lag = 0
    /\ lastOp = [op |-> "init", id |-> UndefinedId]
    /\ poIn \in [productId : {"tuna", "sword"}, weekStart : QueryInstants]
    /\ poOut = <<>>
    /\ outbox = <<>>

\* a purchase of tuna, then one of swordfish, then tuna again, each with
\* twice the pounds of the one before
ArriveOn ==
    /\ poOut = <<>>
    /\ Len(state.purchases) < MaxWeekPurchases
    /\ \E arrival \in ArrivalDates :
          state' = appReducer(state,
                              [type |-> "ADD_PURCHASE",
                               purchase |-> [id |-> <<UndefinedId, Len(state.purchases) + 1>>,
                                             productId |-> IF Len(state.purchases) % 2 = 0
                                                           THEN "tuna" ELSE "sword",
                                             totalPounds |-> Lb(100) * 2 ^ Len(state.purchases),
                                             weekStartDate |-> getWeekStart(arrival),
                                             estimatedArrival |-> arrival,
                                             shipmentId |-> UndefinedId]], now)
    /\ lastOp' = [op |-> "add-purchase", id |-> UndefinedId]
    /\ UNCHANGED <<view, now, nextId, lag, poIn, poOut, outbox>>

\* getQuotaStatus(productId, weekStart) with a weekStart that has a time of day
QueryWeek ==
    /\ poOut = <<>>
    /\ poOut' = <<getQuotaStatus(state, poIn.productId, LocalDay(poIn.weekStart)).currentTotal>>
    /\ UNCHANGED <<state, view, now, nextId, lag, lastOp, poIn, outbox>>

NextWeek ==
    \/ ArriveOn
    \/ QueryWeek

SpecWeek == InitWeek /\ [][NextWeek]_vars

-----------------------------------------------------------------------------
(* generatePurchaseOrderNumber over arbitrary lists of existing numbers    *)

PO(datePart, sequencePart) == <<"P", "O", "-">> \o datePart \o <<"-">> \o sequencePart

June1 == <<"2", "0", "2", "5", "0", "6", "0", "1">>
June2 == <<"2", "0", "2", "5", "0", "6", "0", "2">>

WellFormedNumbers ==
    { PO(June1, <<"0", "0", "0", "1">>),
      PO(June1, <<"0", "0", "0", "7">>),
      PO(June1, <<"9", "9", "9", "9">>),
      PO(June2, <<"0", "0", "0", "3">>) }

MalformedNumbers ==
    { PO(June1, <<"1", "2">>),
      PO(June1, <<"0", "0", "0", "5", "-", "A">>),
      PO(June1 \o <<"1">>, <<"0", "0", "0", "4">>),
      PO(June1, <<"a", "b", "c", "d">>),
      <<"P", "O", "-">> \o June1 }

NumberPool == WellFormedNumbers \cup MalformedNumbers

RECURSIVE SeqsUpTo(_, _)
SeqsUpTo(S, n) ==
    IF n = 0 THEN {<<>>}
    ELSE LET shorter == SeqsUpTo(S, n - 1)
         IN shorter \cup {Append(q, x) : q \in shorter, x \in S}

InitPO ==
    /\ state = initialState
    /\ view = state
    /\ now = 0
    /\ nextId = 1
    /\ lag = 0
    /\ lastOp = [op |-> "init", id |-> UndefinedId]
    /\ poIn \in [existing : SeqsUpTo(NumberPool, MaxExisting), today : {0, 1}]
    /\ poOut = <<>>
    /\ outbox = <<>>

Generate ==
    /\ poOut = <<>>
    /\ poOut' = generatePurchaseOrderNumber(poIn.existing, poIn.today)
    /\ UNCHANGED <<state, view, now, nextId, lag, lastOp, poIn, outbox>>

NextPO == Generate

SpecPO == InitPO /\ [][NextPO]_vars

-----------------------------------------------------------------------------
(* Vocabulary of the properties                                            *)

ShipmentSet(st) == {st.shipments[i] : i \in 1..Len(st.shipments)}

CatalogIds(st) == {st.products[i].id : i \in 1..Len(st.products)}

\* the pounds the index of st holds for a shipment in a (product, week) bucket
IndexedPounds(st, shipmentId, productId, weekStart) ==
    SumPounds(SelectSeq(st.purchases,
                        LAMBDA p : /\ p.shipmentId = shipmentId
                                   /\ p.productId = productId
                                   /\ getWeekStart(p.estimatedArrival) = weekStart))

\* the pounds of a shipment's own product lines in a (product, week) bucket
RECURSIVE LinePounds(_, _)
LinePounds(lines, productId) ==
    IF lines = <<>> THEN 0
    ELSE (IF Head(lines).productId = productId THEN Head(lines).totalPounds ELSE 0)
            + LinePounds(Tail(lines), productId)

ShipmentPounds(shipment, productId, weekStart) ==
    IF getWeekStart(shipment.estimatedArrival) = weekStart
    THEN LinePounds(shipment.products, productId) ELSE 0

Buckets == {"tuna", "other"} \X QueryWeeks

Total(st, bucket) == getQuotaStatus(st, bucket[1], bucket[2]).currentTotal

\* every product line of the shipment is in the index, and nothing else of it
InIndex(st, shipment) ==
    \A b \in Buckets :
        IndexedPounds(st, shipment.id, b[1], b[2]) = ShipmentPounds(shipment, b[1], b[2])

NotInIndex(st, shipmentId) == \A i \in 1..Len(st.purchases) : st.purchases[i].shipmentId # shipmentId

\* the handler that dispatched in this step, by the history variable
Did(op) == lastOp'.op = op /\ state' # state

-----------------------------------------------------------------------------
(* C1: a shipment has a purchaseOrderNumber if and only if its             *)
(* approvalStatus is approved, in every state of the store, a state        *)
(* loaded and migrated from a saved snapshot included.                     *)
C1_NumberIffApproved ==
    \A s \in ShipmentSet(state) :
        (s.purchaseOrderNumber # NoPO) <=> (s.approvalStatus = "approved")

(* C2: no two shipments of the store hold the same purchaseOrderNumber,    *)
(* also when two handlers compute their number from the same snapshot of   *)
(* approved shipments.                                                     *)
C2_NumbersUnique ==
    \A i, j \in 1..Len(state.shipments) :
        (i # j /\ state.shipments[i].purchaseOrderNumber # NoPO)
            => state.shipments[i].purchaseOrderNumber # state.shipments[j].purchaseOrderNumber

(* C3: a new submission is stored as pending exactly when one of its lines *)
(* of a product other than "other" finds the quota status of its product   *)
(* and week near-max or over, or finds the committed total plus the pounds *)
(* of the submission for that product above maxQuota; otherwise it is      *)
(* stored as approved. Lines of "other" never influence the decision.      *)
NeedsReview(st, shipment) ==
    \E i \in 1..Len(shipment.products) :
        LET line == shipment.products[i]
            quota == getQuotaStatus(st, line.productId, shipment.weekStartDate)
        IN /\ line.productId # "other"
           /\ \/ quota.status = "near-max"
              \/ quota.status = "over"
              \/ quota.currentTotal + LinePounds(shipment.products, line.productId)
                    > quota.maxQuota

C3_SubmitDecision ==
    [][nextId' # nextId =>
          LET submitted == FindShipment(state', nextId)
          IN /\ HasShipment(state', nextId)
             /\ submitted.approvalStatus =
                    IF NeedsReview(state, submitted) THEN "pending" ELSE "approved"]_vars

(* C3, for submissions with at most one line of each product: the decision *)
(* is the one stated above.                                                *)
OneLinePerProduct(shipment) ==
    \A i, j \in 1..Len(shipment.products) :
        shipment.products[i].productId = shipment.products[j].productId => i = j

C3_OneLinePerProduct ==
    [][nextId' # nextId =>
          LET submitted == FindShipment(state', nextId)
          IN /\ HasShipment(state', nextId)
             /\ OneLinePerProduct(submitted) =>
                    submitted.approvalStatus =
                        IF NeedsReview(state, submitted) THEN "pending" ELSE "approved"]_vars

(* C4: editing a shipment leaves its approvalStatus and its                *)
(* purchaseOrderNumber unchanged.                                          *)
C4_EditKeepsApproval ==
    [][Did("edit") =>
          /\ FindShipment(state', lastOp'.id).approvalStatus
                = FindShipment(state, lastOp'.id).approvalStatus
          /\ FindShipment(state', lastOp'.id).purchaseOrderNumber
                = FindShipment(state, lastOp'.id).purchaseOrderNumber]_vars

(* C5: for a shipment whose lines are in the index, reject lowers the      *)
(* total of each of its buckets by exactly its pounds for that product;    *)
(* a following unreject leaves every total as it was; a following approve  *)
(* makes the totals include the shipment's pounds again.                   *)
C5_RejectUnrejectApprove ==
    [][/\ (Did("reject") /\ InIndex(state, FindShipment(state, lastOp'.id))) =>
            \A b \in Buckets :
                Total(state', b) = Total(state, b)
                                    - ShipmentPounds(FindShipment(state, lastOp'.id), b[1], b[2])
       /\ Did("unreject") =>
            \A b \in Buckets : Total(state', b) = Total(state, b)
       /\ (Did("approve") /\ NotInIndex(state, lastOp'.id)) =>
            \A b \in Buckets :
                Total(state', b) = Total(state, b)
                                    + ShipmentPounds(FindShipment(state, lastOp'.id), b[1], b[2])
      ]_vars

\* a shipment that was rejected and restored: pending, and none of its pounds counted
C5_Witness ==
    /\ lastOp.op = "unreject"
    /\ HasShipment(state, lastOp.id)
    /\ FindShipment(state, lastOp.id).approvalStatus = "pending"
    /\ NotInIndex(state, lastOp.id)
    /\ \E b \in Buckets : ShipmentPounds(FindShipment(state, lastOp.id), b[1], b[2]) > 0

(* C6: pending shipments do not count toward quota totals: no pounds of a  *)
(* pending shipment are part of a currentTotal.                            *)
C6_PendingNotCounted ==
    \A s \in ShipmentSet(state) :
        s.approvalStatus = "pending" => NotInIndex(state, s.id)

(* C6, as the reducer has it: a shipment stored as pending by a submission *)
(* or an edit counts toward the totals of its week with all its pounds;    *)
(* only a pending shipment that unreject restored counts with none.        *)
C6_PendingCountedUnlessRestored ==
    /\ \A s \in ShipmentSet(state) :
          s.approvalStatus = "pending" => (InIndex(state, s) \/ NotInIndex(state, s.id))
    /\ (lastOp.op \in {"submit", "edit"} /\ HasShipment(state, lastOp.id)) =>
          InIndex(state, FindShipment(state, lastOp.id))
    /\ lastOp.op = "unreject" =>
          /\ HasShipment(state, lastOp.id)
          /\ FindShipment(state, lastOp.id).approvalStatus = "pending"
          /\ NotInIndex(state, lastOp.id)

C6_Witness ==
    /\ lastOp.op = "submit"
    /\ HasShipment(state, lastOp.id)
    /\ FindShipment(state, lastOp.id).approvalStatus = "pending"
    /\ \E b \in Buckets :
          /\ IndexedPounds(state, lastOp.id, b[1], b[2]) > 0
          /\ Total(state, b) > getQuotaStatus(state, b[1], b[2]).maxQuota

(* C7: getQuotaStatus returns percentage = currentTotal / maxQuota * 100   *)
(* when maxQuota > 0 and 0 otherwise; its status is over when currentTotal *)
(* > maxQuota, else near-max when percentage >= 90, else good when         *)
(* currentTotal >= minQuota, else under; it throws for a productId that    *)
(* is not in the catalog.                                                  *)
C7_QuotaStatus ==
    \A productId \in QueryProducts, weekStart \in QueryWeeks :
        LET q == getQuotaStatus(state, productId, weekStart)
        IN IF productId \notin CatalogIds(state) THEN q = ProductNotFound
           ELSE /\ q # ProductNotFound
                /\ q.product.id = productId
                /\ q.minQuota = q.product.minQuota /\ q.maxQuota = q.product.maxQuota
                /\ q.maxQuota > 0 =>
                      (q.percentage.num = q.currentTotal * 100 /\ q.percentage.den = q.maxQuota)
                /\ q.maxQuota <= 0 => (q.percentage.num = 0 /\ q.percentage.den > 0)
                /\ (q.status = "over") <=> (q.currentTotal > q.maxQuota)
                /\ (q.status = "near-max") <=>
                      /\ q.currentTotal <= q.maxQuota
                      /\ q.percentage.num >= 90 * q.percentage.den
                /\ (q.status = "good") <=>
                      /\ q.currentTotal <= q.maxQuota
                      /\ q.percentage.num < 90 * q.percentage.den
                      /\ q.currentTotal >= q.minQuota
                /\ (q.status = "under") <=>
                      /\ q.currentTotal <= q.maxQuota
                      /\ q.percentage.num < 90 * q.percentage.den
                      /\ q.currentTotal < q.minQuota

\* maxQuota = 0: the percentage is 0 and any purchase puts the bucket over
C7_Witness ==
    \E weekStart \in QueryWeeks :
        LET q == getQuotaStatus(state, "tuna", weekStart)
        IN /\ q.maxQuota = 0
           /\ q.currentTotal > 0
           /\ q.percentage.num = 0
           /\ q.status = "over"

(* C8: with pounds in hundredths, the status of a bucket never moves down  *)
(* in under < good < near-max < over when a purchase with non-negative     *)
(* pounds is added to it; a total equal to maxQuota is not over and a      *)
(* total of maxQuota + 0.01 is over.                                       *)
Rank(status) ==
    CASE status = "under" -> 0
      [] status = "good" -> 1
      [] status = "near-max" -> 2
      [] status = "over" -> 3

C8_MonotoneAndExact ==
    [][/\ Len(state'.purchases) = Len(state.purchases) + 1 =>
            \A weekStart \in QueryWeeks :
                Rank(getQuotaStatus(state', "tuna", weekStart).status)
                    >= Rank(getQuotaStatus(state, "tuna", weekStart).status)
       /\ \A weekStart \in QueryWeeks :
            LET q == getQuotaStatus(state', "tuna", weekStart)
            IN /\ q.currentTotal = q.maxQuota => q.status # "over"
               /\ q.currentTotal = q.maxQuota + 1 => q.status = "over"
      ]_vars

C8_Witness ==
    \E weekStart \in QueryWeeks :
        LET q == getQuotaStatus(state, "tuna", weekStart)
        IN /\ q.maxQuota = Lb(500)
           /\ q.currentTotal = q.maxQuota + 1
           /\ q.status = "over"
           /\ lastOp.op = "add-purchase"

(* C9: generatePurchaseOrderNumber(existing) is PO-<today as YYYYMMDD>-NNNN*)
(* with NNNN exactly 4 zero-padded digits, one more than the largest       *)
(* sequence among the existing numbers dated today, 0001 when there is     *)
(* none; numbers of other dates do not affect the result.                  *)
DatePart(po) == SubSeq(po, 4, 11)
SequenceValue(po) == DigitsValue(SubSeq(po, 13, 16))

TodayDigits(today) ==
    NumberToString(getFullYear(today) * 10000 + (getMonth(today) + 1) * 100 + getDate(today))

LargestToday(existing, today) ==
    LET todays == {i \in 1..Len(existing) : DatePart(existing[i]) = TodayDigits(today)}
    IN IF todays = {} THEN 0
       ELSE SequenceValue(existing[CHOOSE i \in todays :
                \A j \in todays : SequenceValue(existing[j]) <= SequenceValue(existing[i])])

C9_NextNumber ==
    (/\ poOut # <<>>
     /\ \A i \in 1..Len(poIn.existing) : poIn.existing[i] \in WellFormedNumbers) =>
        /\ isValidPurchaseOrderNumber(poOut)
        /\ DatePart(poOut) = TodayDigits(poIn.today)
        /\ SequenceValue(poOut) = LargestToday(poIn.existing, poIn.today) + 1

(* C10: only the existing entries of the strict format PO-<8 digits>-<4    *)
(* digits> count for the next sequence; a malformed entry never changes    *)
(* the result.                                                             *)
C10_MalformedIgnored ==
    poOut # <<>> =>
        poOut = generatePurchaseOrderNumber(
                    SelectSeq(poIn.existing, isValidPurchaseOrderNumber), poIn.today)

(* C11: for every list of existing numbers and every date today, the date  *)
(* read back from the generated number is not null and is today, and the   *)
(* generated number passes isValidPurchaseOrderNumber.                     *)
C11_RoundTrip ==
    poOut # <<>> =>
        /\ isValidPurchaseOrderNumber(poOut)
        /\ getDateFromPurchaseOrderNumber(poOut) # NullDate
        /\ getDateFromPurchaseOrderNumber(poOut) = poIn.today

(* C11, below the last sequence of a day: the round trip holds when no     *)
(* existing number of today parses to 9999 or more.                        *)
C11_RoundTripBelowLast ==
    (poOut # <<>> /\ TodaysMaxSequence(poIn.existing, poIn.today) < 9999) =>
        /\ isValidPurchaseOrderNumber(poOut)
        /\ getDateFromPurchaseOrderNumber(poOut) = poIn.today

(* C12: delete of a shipment in any state removes the shipment and every   *)
(* purchase derived from it; the total of each of its (product, week)      *)
(* buckets drops by exactly the pounds it was contributing, and no other   *)
(* shipment or purchase changes.                                           *)
C12_Delete ==
    [][Did("delete") =>
          LET id == lastOp'.id
          IN /\ HasShipment(state, id)
             /\ ~HasShipment(state', id)
             /\ NotInIndex(state', id)
             /\ \A b \in Buckets :
                    Total(state', b) = Total(state, b) - IndexedPounds(state, id, b[1], b[2])
             /\ state'.shipments = SelectSeq(state.shipments, LAMBDA s : s.id # id)
             /\ state'.purchases = SelectSeq(state.purchases, LAMBDA p : p.shipmentId # id)
             /\ state'.products = state.products]_vars

\* a shipment was deleted while another shipment and another purchase stay
C12_Witness ==
    /\ lastOp.op = "delete"
    /\ ~HasShipment(state, lastOp.id)
    /\ NotInIndex(state, lastOp.id)
    /\ Len(state.shipments) > 0
    /\ Len(state.purchases) > 1

(* C13: the retention sweep removes exactly the shipments that are         *)
(* rejected with a rejectedAt more than 30 days before the sweep time; it  *)
(* never removes or changes a pending or approved shipment and leaves the  *)
(* purchase index unchanged.                                               *)
Swept(st, clock) == appReducer(st, [type |-> "DELETE_OLD_REJECTED"], clock)

RejectedMoreThan(s, clock, days) ==
    /\ s.approvalStatus = "rejected"
    /\ s.rejectedAt # UndefinedDate
    /\ clock - s.rejectedAt > days

C13_SweepRemovesExpired ==
    /\ Swept(state, now).shipments =
          SelectSeq(state.shipments, LAMBDA s : ~RejectedMoreThan(s, now, RetentionDays))
    /\ Swept(state, now).purchases = state.purchases
    /\ Swept(state, now).products = state.products

(* C13, as the reducer has it: the sweep removes exactly the shipments     *)
(* rejected 30 days before the sweep time or earlier, and nothing else.    *)
C13_SweepRemovesFromRetention ==
    /\ Swept(state, now).shipments =
          SelectSeq(state.shipments, LAMBDA s : ~RejectedMoreThan(s, now, RetentionDays - 1))
    /\ Swept(state, now).purchases = state.purchases
    /\ Swept(state, now).products = state.products

(* C14: the retention sweep is idempotent: run twice at the same clock     *)
(* time it yields the same store state as run once.                        *)
C14_SweepIdempotent ==
    Swept(Swept(state, now), now) = Swept(state, now)

\* the sweep has two shipments to remove
C14_Witness ==
    /\ Len(state.shipments) >= 2
    /\ Len(Swept(state, now).shipments) = Len(state.shipments) - 2

(* C15: the retention sweep commutes with approve, reject, unreject and    *)
(* delete: for every reachable state and every such transition on a        *)
(* shipment at the same clock time, sweep followed by the transition       *)
(* yields the same store state as the transition followed by sweep.        *)
TransitionKinds == {"approve", "reject", "unreject", "delete"}

\* the handler of the transition, called from a render of st, and its dispatch
Transition(st, kind, shipment, clock) ==
    CASE kind = "approve" ->
            appReducer(st, handleApproveShipment(st, shipment, clock), clock)
      [] kind = "reject" -> appReducer(st, handleRejectShipment(shipment), clock)
      [] kind = "unreject" -> appReducer(st, handleUnrejectShipment(shipment.id), clock)
      [] kind = "delete" -> appReducer(st, confirmDeleteShipment(shipment), clock)

\* the cards on which PendingPurchases offers the transition
Offered(kind, shipment) ==
    CASE kind \in {"approve", "reject"} -> shipment.approvalStatus = "pending"
      [] kind = "unreject" -> shipment.approvalStatus = "rejected"
      [] kind = "delete" -> TRUE

Commutes(kind, shipment) ==
    Swept(Transition(state, kind, shipment, now), now)
        = Transition(Swept(state, now), kind, shipment, now)

C15_SweepCommutes ==
    \A shipment \in ShipmentSet(state), kind \in TransitionKinds :
        Offered(kind, shipment) => Commutes(kind, shipment)

(* C15, without the shipments the sweep is about to remove: the sweep      *)
(* commutes with delete of any shipment, and with approve, reject and      *)
(* unreject of every shipment that the sweep at that clock time retains.   *)
Retained(shipment) == shipment \in ShipmentSet(Swept(state, now))

C15_SweepCommutesOnRetained ==
    \A shipment \in ShipmentSet(state), kind \in TransitionKinds :
        (kind = "delete" \/ Retained(shipment)) => Commutes(kind, shipment)

\* the sweep removes one shipment and an approval of another one commutes with it
C15_Witness ==
    \E shipment \in ShipmentSet(state) :
        /\ shipment.approvalStatus = "pending"
        /\ Swept(state, now) # state
        /\ Transition(state, "approve", shipment, now) # state
        /\ Swept(Transition(state, "approve", shipment, now), now)
              # Transition(state, "approve", shipment, now)
        /\ Commutes("approve", shipment)

(* C16: unreject changes the state only when the target shipment is        *)
(* rejected: it then sets the status to pending and clears rejectedAt, and *)
(* leaves the purchase index and every other shipment unchanged; applied   *)
(* to a pending or approved shipment it leaves the whole state unchanged.  *)
C16_UnrejectFrame ==
    \A shipment \in ShipmentSet(state) :
        LET after == Transition(state, "unreject", shipment, now)
        IN IF shipment.approvalStatus = "rejected"
           THEN /\ HasShipment(after, shipment.id)
                /\ FindShipment(after, shipment.id) =
                      [shipment EXCEPT !.approvalStatus = "pending",
                                       !.rejectedAt = UndefinedDate]
                /\ Len(after.shipments) = Len(state.shipments)
                /\ \A i \in 1..Len(state.shipments) :
                      state.shipments[i].id # shipment.id =>
                          after.shipments[i] = state.shipments[i]
                /\ after.purchases = state.purchases
                /\ after.products = state.products
           ELSE after = state

\* unreject has restored a shipment beside a shipment that is not rejected
C16_Witness ==
    /\ lastOp.op = "unreject"
    /\ HasShipment(state, lastOp.id)
    /\ FindShipment(state, lastOp.id).approvalStatus = "pending"
    /\ FindShipment(state, lastOp.id).rejectedAt = UndefinedDate
    /\ \E other \in ShipmentSet(state) :
          other.id # lastOp.id /\ other.approvalStatus = "approved"

(* C17: edit, approve, reject, unreject and delete applied to a shipment   *)
(* id that is not in the store leave the whole store (shipments and        *)
(* purchase index) unchanged.                                              *)
\* a handler has dispatched for a shipment that the store does not hold
OnMissing(ops) ==
    /\ lag' = lag + 1
    /\ lastOp'.op \in ops
    /\ ~HasShipment(state, lastOp'.id)

C17_MissingLeavesStore ==
    [][OnMissing({"edit", "approve", "reject", "unreject", "delete"}) => state' = state]_vars

(* C17, for the transitions that the reducer looks up: reject, unreject    *)
(* and delete of a shipment id that is not in the store leave the store    *)
(* unchanged.                                                              *)
C17_MissingRejectUnrejectDelete ==
    [][OnMissing({"reject", "unreject", "delete"}) => state' = state]_vars

(* C18: approve and reject are legal only from pending: approving a        *)
(* shipment that is already approved or is rejected, and rejecting a       *)
(* shipment that is approved or already rejected, leaves the store         *)
(* unchanged.                                                              *)
\* a handler has dispatched for a shipment of the store that is not pending
OnNotPending(ops) ==
    /\ lag' = lag + 1
    /\ lastOp'.op \in ops
    /\ HasShipment(state, lastOp'.id)
    /\ FindShipment(state, lastOp'.id).approvalStatus # "pending"

C18_OnlyFromPending ==
    [][OnNotPending({"approve", "reject"}) => state' = state]_vars

(* C19: for submit, approve and reject the store after the handler is the  *)
(* result of its dispatch, whether a notification call is started or       *)
(* skipped; a call is started only in a step that has made the dispatch of *)
(* its transition; and a call that settles, delivered or failed, leaves    *)
(* the store as it is.                                                     *)

CallsOf(op) ==
    CASE op = "submit" -> {"slack.sendNewShipmentAutoApprovedNotification",
                           "slack.sendNewShipmentPendingNotification"}
      [] op = "approve" -> {"sendApprovalNotification"}
      [] op = "reject" -> {"sendRejectionNotification"}
      [] OTHER -> {}

\* the step is the dispatch of handler op for shipment id, from the render view
Transitioned(op, id) ==
    CASE op = "submit" ->
            \E form \in SweepForms :
                /\ handleSubmit(view, form, NotEditing, now, id) # NoAction
                /\ state' = appReducer(state, handleSubmit(view, form, NotEditing, now, id), now)
      [] op = "approve" ->
            \E shipment \in pendingShipments(view) :
                /\ shipment.id = id
                /\ state' = appReducer(state, handleApproveShipment(view, shipment, now), now)
      [] op = "reject" ->
            \E shipment \in pendingShipments(view) :
                /\ shipment.id = id
                /\ state' = appReducer(state, handleRejectShipment(shipment), now)
      [] OTHER -> FALSE

CallSettles == Len(outbox') = Len(outbox) /\ outbox' # outbox

C19_NotificationsApart ==
    [][IF CallSettles THEN state' = state
       ELSE /\ Transitioned(lastOp'.op, lastOp'.id)
            /\ \/ outbox' = outbox
               \/ \E call \in CallsOf(lastOp'.op) :
                     outbox' = Append(outbox, Notification(call, lastOp'.id))]_vars

\* a rejection whose call failed is still in the store as rejected, beside a
\* shipment submitted without any call
C19_Witness ==
    /\ Len(outbox) = 1
    /\ outbox[1].call = "sendRejectionNotification"
    /\ outbox[1].status = "failed"
    /\ Len(state.shipments) = 2
    /\ \E s \in ShipmentSet(state) :
          s.id = outbox[1].shipmentId /\ s.approvalStatus = "rejected"

(* C20: in every reachable state of the store, no purchase of the index    *)
(* belongs to a shipment whose approvalStatus is rejected.                 *)

C20_NoPurchaseOfRejected ==
    \A s \in ShipmentSet(state) :
        s.approvalStatus = "rejected" => NotInIndex(state, s.id)

\* a shipment has just been rejected while the index still holds purchases
\* that are not its own
C20_Witness ==
    /\ lastOp.op = "reject"
    /\ \E s \in ShipmentSet(state) :
          /\ s.id = lastOp.id
          /\ s.approvalStatus = "rejected"
          /\ \E i \in 1..Len(state.purchases) : state.purchases[i].shipmentId # s.id

(* C21: after an edit of a shipment that is not rejected, the purchases of *)
(* the index with its shipmentId are exactly one record per product line   *)
(* of the edited shipment, the stored shipment is the edited one with      *)
(* weekStartDate the Sunday of the week of its estimatedArrival, and the   *)
(* purchases of every other shipment are as they were.                     *)

OfShipment(purchases, id) == SelectSeq(purchases, LAMBDA p : p.shipmentId = id)

\* the shipment holds what the form says
Carries(shipment, form) ==
    /\ shipment.estimatedArrival = parseDateInput(form.estimatedArrival)
    /\ Len(shipment.products) = Len(form.products)
    /\ \A i \in 1..Len(form.products) :
          /\ shipment.products[i].productId = form.products[i].productId
          /\ shipment.products[i].totalPounds = form.products[i].totalPounds

FirstOfDay(today) == DatePrefix(today) \o <<"-", "0", "0", "0", "1">>

NoneOfToday(st, today) ==
    \A s \in ShipmentSet(st) :
        (s.approvalStatus = "approved" /\ s.purchaseOrderNumber # NoPO)
            => ~StartsWith(s.purchaseOrderNumber, DatePrefix(today))

Without(st, shipmentId) == [st EXCEPT !.purchases = WithoutShipment(@, shipmentId)]

C22_Approve ==
    [][Did("approve") =>
          /\ HasShipment(state, lastOp'.id)
          /\ HasShipment(state', lastOp'.id)
          /\ LET pending == FindShipment(state, lastOp'.id)
                 approved == FindShipment(state', lastOp'.id)
             IN /\ pending.approvalStatus = "pending"
                /\ approved = [pending EXCEPT
                                 !.approvalStatus = "approved",
                                 !.purchaseOrderNumber =
                                     generatePurchaseOrderNumber(ExistingPONumbers(state), now)]
                /\ NoneOfToday(state, now) => approved.purchaseOrderNumber = FirstOfDay(now)
                /\ OfShipment(state'.purchases, approved.id) = ShipmentPurchases(approved)
                /\ Len(ShipmentPurchases(approved)) = Len(approved.products)
                /\ \A b \in Buckets :
                      Total(state', b) = Total(Without(state, approved.id), b)
                                            + ShipmentPounds(approved, b[1], b[2])
                /\ Len(state'.shipments) = Len(state.shipments)
                /\ \A i \in 1..Len(state.shipments) :
                      state.shipments[i].id # approved.id
                          => state'.shipments[i] = state.shipments[i]]_vars

\* the second number of a day: a shipment approved while another approved
\* shipment holds the first number of today
C22_Witness ==
    /\ lastOp.op = "approve"
    /\ HasShipment(state, lastOp.id)
    /\ FindShipment(state, lastOp.id).approvalStatus = "approved"
    /\ FindShipment(state, lastOp.id).purchaseOrderNumber
          = DatePrefix(now) \o <<"-", "0", "0", "0", "2">>
    /\ \E s \in ShipmentSet(state) : s.purchaseOrderNumber = FirstOfDay(now)

(* C23: getQuotaStatus returns the minQuota and maxQuota of the WeeklyQuota *)
(* record of the store for (product, week) when there is one, and the       *)
(* static minQuota and maxQuota of the product only when there is none.     *)

Overrides(st, productId, weekStart) ==
    {q \in {st.weeklyQuotas[i] : i \in 1..Len(st.weeklyQuotas)} :
        q.productId = productId /\ q.weekStartDate = getWeekStart(weekStart)}

StaticQuota(st, productId) ==
    CHOOSE p \in {st.products[i] : i \in 1..Len(st.products)} : p.id = productId

C23_OverrideUsed ==
    \A weekStart \in QueryWeeks :
        LET quotaStatus == getQuotaStatus(state, "tuna", weekStart)
        IN IF Overrides(state, "tuna", weekStart) # {}
           THEN \E q \in Overrides(state, "tuna", weekStart) :
                   /\ quotaStatus.minQuota = q.minQuota
                   /\ quotaStatus.maxQuota = q.maxQuota
                   /\ quotaStatus.status = StatusOf(quotaStatus.currentTotal,
                                                    q.minQuota, q.maxQuota)
           ELSE /\ quotaStatus.minQuota = StaticQuota(state, "tuna").minQuota
                /\ quotaStatus.maxQuota = StaticQuota(state, "tuna").maxQuota

(* C23, as the code has it: getQuotaStatus returns the static minQuota and *)
(* maxQuota of the product, whatever WeeklyQuota records the store holds.  *)
C23_StaticQuotaOnly ==
    \A weekStart \in QueryWeeks :
        LET quotaStatus == getQuotaStatus(state, "tuna", weekStart)
        IN /\ quotaStatus.minQuota = StaticQuota(state, "tuna").minQuota
           /\ quotaStatus.maxQuota = StaticQuota(state, "tuna").maxQuota
           /\ quotaStatus.status = StatusOf(quotaStatus.currentTotal,
                                            StaticQuota(state, "tuna").minQuota,
                                            StaticQuota(state, "tuna").maxQuota)

(* C24: the currentTotal of getQuotaStatus(productId, weekStart) is the sum *)
(* of totalPounds over exactly the purchases of the index with that         *)
(* productId whose estimatedArrival is in the Sunday-to-Saturday week of    *)
(* weekStart; two dates of one week have the same week key whatever their   *)
(* day and time of day, and dates of different weeks never have.            *)

\* day 0 is a Sunday: the weeks are the runs of seven days from it
SameWeek(date, other) == date \div 7 = other \div 7

FailsValidation(form) ==
    \/ Trim(form.shipper) = ""
    \/ form.estimatedArrival = <<>>
    \/ \E i \in 1..Len(form.products) :
          LET product == form.products[i]
          IN \/ product.productId = ""
             \/ product.totalPounds <= 0
             \/ (product.productId = "other" /\ Trim(product.customProductName) = "")
             \/ Abs(SumItems(product.items) - product.totalPounds) > 1
             \/ \E k \in 1..Len(product.items) : product.items[k] < 0

\* the store after the form was submitted from the render snap
Submitted(st, snap, form, editingShipment, clock, freshId) ==
    LET action == onSubmit(snap, form, editingShipment, clock, freshId)
    IN IF action = NoAction THEN st ELSE appReducer(st, action, clock)

C25_InvalidLeavesStore ==
    \A form \in Forms :
        FailsValidation(form) =>
            /\ Submitted(state, view, form, NotEditing, now, nextId) = state
            /\ \A editingShipment \in filteredShipments(view) :
                  Submitted(state, view, form, editingShipment, now, nextId) = state

\* the store holds a shipment that can be edited, and among the forms is one
\* whose items sum to its total with a negative item
C25_Witness ==
    /\ filteredShipments(view) # {}
    /\ lastOp.op \in {"submit", "edit"}
    /\ \E form \in Forms :
          /\ FormIsValid(form)
          /\ FailsValidation(form)
          /\ \E editingShipment \in filteredShipments(view) :
                Submitted(state, view, form, editingShipment, now, nextId) = state

(* C26: immediately after a new submission was stored as approved, for     *)
(* every product of the shipment other than "other" the total of that      *)
(* product for the shipment's week, the new shipment included, is at most  *)
(* maxQuota; also when the shipment has several lines of one product.      *)

WithinQuota(st, shipment) ==
    \A i \in 1..Len(shipment.products) :
        LET line == shipment.products[i]
            quota == getQuotaStatus(st, line.productId, shipment.weekStartDate)
        IN line.productId # "other" => quota.currentTotal <= quota.maxQuota

C26_AutoApprovedWithinQuota ==
    [][nextId' # nextId =>
          LET submitted == FindShipment(state', nextId)
          IN /\ HasShipment(state', nextId)
             /\ submitted.approvalStatus = "approved" => WithinQuota(state', submitted)]_vars

(* C26, for submissions with at most one line of each product: a shipment  *)
(* stored as approved leaves every total of its products within maxQuota.  *)
C26_OneLinePerProduct ==
    [][nextId' # nextId =>
          LET submitted == FindShipment(state', nextId)
          IN /\ HasShipment(state', nextId)
             /\ (submitted.approvalStatus = "approved" /\ OneLinePerProduct(submitted))
                    => WithinQuota(state', submitted)]_vars

(* C27: a purchaseOrderNumber, once a shipment holds it, is never held by  *)
(* another shipment afterwards, also after the shipment that held it was   *)
(* deleted or was edited so that it lost or changed its number. (A number  *)
(* carries its day, so a later holder acquired it on that same day.)       *)

IssuedIds == 0..(MaxSweepShipments + 1)

IssuableNumbers ==
    {DatePrefix(day) \o <<"-">> \o PadStart(NumberToString(sequence), 4, "0") :
        day \in {0} \cup (RetentionDays - 1)..(RetentionDays + MaxOverdue),
        sequence \in 1..MaxIssued}

Holds(id, number) ==
    \E s \in ShipmentSet(state) : s.id = id /\ s.purchaseOrderNumber = number

C27_NumberNeverReused ==
    \A id \in IssuedIds, number \in IssuableNumbers :
        [](Holds(id, number) => [](\A other \in IssuedIds \ {id} : ~Holds(other, number)))

(* C28: a rejected shipment never becomes approved in a single step: every *)
(* path from rejected to approved passes through pending, also when an     *)
(* approve or edit handler that captured the shipment while it was pending *)
(* dispatches after the reject was applied.                                *)

C28_RejectedNotApprovedAtOnce ==
    [][\A s \in ShipmentSet(state) :
          s.approvalStatus = "rejected" =>
              \A after \in ShipmentSet(state') :
                  after.id = s.id => after.approvalStatus # "approved"]_vars

(* C29: in every reachable state, each record of the purchase index that   *)
(* carries a shipmentId refers to a shipment that is in the store, also    *)
(* when an edit or approve is dispatched for a shipment that has meanwhile *)
(* been deleted.                                                           *)

C29_NoOrphanPurchases ==
    \A i \in 1..Len(state.purchases) :
        state.purchases[i].shipmentId # UndefinedId
            => HasShipment(state, state.purchases[i].shipmentId)

(* C30: when the retention sweep keeps being dispatched and time keeps     *)
(* advancing, every shipment that stays rejected, neither unrejected nor   *)
(* deleted, is eventually removed from the store.                          *)

Rejected(id) ==
    \E s \in ShipmentSet(state) : s.id = id /\ s.approvalStatus = "rejected"

C30_RejectedEventuallyRemoved ==
    \A id \in 1..MaxSweepShipments : Rejected(id) ~> ~Rejected(id)

\* a shipment rejected on the first day is still in the store, rejected,
\* when its retention period has passed and the sweep is due
C30_Witness ==
    /\ now >= RetentionDays
    /\ \E s \in ShipmentSet(state) :
          /\ s.approvalStatus = "rejected"
          /\ s.rejectedAt = 0
          /\ ~HasShipment(DELETE_OLD_REJECTED(state, now), s.id)

====
